---- MODULE Spec2Model ----
(***************************************************************************)
(* NewCode encoder/decoder (src/main.py).                                  *)
(*                                                                         *)
(* Python strings are modelled as sequences of one-character strings, byte *)
(* buffers as sequences of 0..255, text as sequences of Unicode code       *)
(* points.  Python integers are unbounded; every input set below is chosen *)
(* so that all intermediate values stay below 2^31.                        *)
(*                                                                         *)
(* enc and dec record the last encode and the last decode call (operation, *)
(* input, result, codec functions called); fs is the file system.          *)
(***************************************************************************)
EXTENDS Integers, Sequences, FiniteSets, TLC

VARIABLES enc, dec, fs

vars == <<enc, dec, fs>>

(***************************************************************************)
(* Bounds of the explored input sets.                                      *)
(***************************************************************************)
MaxNum == 70
MaxNumLen == 2
MaxCryptLen == 3
MaxTextLen == 2
MaxBytes == 2
MaxFileCryptLen == 2

(***************************************************************************)
(* Generic sequence helpers (Python list / str primitives).                *)
(***************************************************************************)
SeqsUpTo(S, n) == UNION {[1..k -> S] : k \in 0..n}

Range(s) == {s[i] : i \in 1..Len(s)}

\* s[::-1]
Reverse(s) == [i \in 1..Len(s) |-> s[Len(s) + 1 - i]]

\* s[i:j] with 0-based, end-exclusive Python indices, clipped at len(s)
Slice(s, i, j) ==
  LET hi == IF j < Len(s) THEN j ELSE Len(s)
  IN  IF hi <= i THEN <<>> ELSE SubSeq(s, i + 1, hi)

\* s.ljust(w, c)
RECURSIVE LJust(_, _, _)
LJust(s, w, c) == IF Len(s) >= w THEN s ELSE LJust(Append(s, c), w, c)

\* s.rstrip(c)
RECURSIVE RStrip(_, _)
RStrip(s, c) ==
  IF s # <<>> /\ s[Len(s)] = c THEN RStrip(SubSeq(s, 1, Len(s) - 1), c) ELSE s

\* s.split(sep): always at least one (possibly empty) group
RECURSIVE SplitFrom(_, _, _, _)
SplitFrom(s, sep, i, cur) ==
  IF i > Len(s) THEN <<cur>>
  ELSE IF s[i] = sep THEN <<cur>> \o SplitFrom(s, sep, i + 1, <<>>)
  ELSE SplitFrom(s, sep, i + 1, Append(cur, s[i]))

Split(s, sep) == SplitFrom(s, sep, 1, <<>>)

\* sep.join(groups)
RECURSIVE Join(_, _)
Join(groups, sep) ==
  IF groups = <<>> THEN <<>>
  ELSE IF Len(groups) = 1 THEN groups[1]
  ELSE groups[1] \o <<sep>> \o Join(Tail(groups), sep)

\* ''.join of a list of strings
RECURSIVE Concat(_)
Concat(groups) == IF groups = <<>> THEN <<>> ELSE groups[1] \o Concat(Tail(groups))

(***************************************************************************)
(* str.upper() on the ASCII letters.                                       *)
(***************************************************************************)
LOWER == <<"a","b","c","d","e","f","g","h","i","j","k","l","m",
           "n","o","p","q","r","s","t","u","v","w","x","y","z">>
UPPER == <<"A","B","C","D","E","F","G","H","I","J","K","L","M",
           "N","O","P","Q","R","S","T","U","V","W","X","Y","Z">>

\* c.upper(): the ASCII letters, and U+00DF, which upper-cases to two characters
UpperChar(c) ==
  IF \E i \in 1..Len(LOWER) : LOWER[i] = c
  THEN <<UPPER[CHOOSE i \in 1..Len(LOWER) : LOWER[i] = c]>>
  ELSE IF c = "ß" THEN <<"S", "S">>
  ELSE <<c>>

Upper(s) == Concat([i \in 1..Len(s) |-> UpperChar(s[i])])

(***************************************************************************)
(* The character set and base.                                             *)
(***************************************************************************)
CHARSET == <<"A","B","C","D","E","F","G","H","J","K","L","M","N","P","Q","R",
             "S","T","U","V","W","X","Y","Z","2","3","4","5","6","7","8","9">>
BASE == Len(CHARSET)

InCharset(c) == \E i \in 1..Len(CHARSET) : CHARSET[i] = c

\* CHARSET.index(c), 0-based
CharsetIndex(c) == (CHOOSE i \in 1..Len(CHARSET) : CHARSET[i] = c) - 1

(***************************************************************************)
(* Results of a call: a returned value or a raised exception.              *)
(***************************************************************************)
Ok(v) == [ok |-> TRUE, val |-> v]
Raise(e, m) == [ok |-> FALSE, exc |-> e, msg |-> m]

(***************************************************************************)
(* int_to_crypttext                                                        *)
(***************************************************************************)
\* while num > 0: chars.append(CHARSET[num % BASE]); num //= BASE
RECURSIVE DigitLoop(_, _)
DigitLoop(num, chars) ==
  IF num > 0
  THEN DigitLoop(num \div BASE, Append(chars, CHARSET[(num % BASE) + 1]))
  ELSE chars

\* if len(group) < 4: group = group.ljust(4, 'A')
PadGroup(group) == IF Len(group) < 4 THEN LJust(group, 4, "A") ELSE group

\* for i in range(0, len(chars), 4): grouped.append(pad(chars[i:i+4]))
RECURSIVE GroupLoop(_, _, _)
GroupLoop(chars, i, grouped) ==
  IF i >= Len(chars) THEN grouped
  ELSE GroupLoop(chars, i + 4, Append(grouped, PadGroup(Slice(chars, i, i + 4))))

\* faulty variant: the groups are left in digit order
KeepGroupOrder(grouped) == grouped

\* grouped = [group[::-1] for group in grouped]
ReverseGroups(grouped) == [k \in 1..Len(grouped) |-> Reverse(grouped[k])]

\* faulty variant: no special case for 0, the digit loop yields nothing
EncodeZeroAsEmpty == <<>>

\* if num == 0: return CHARSET[0]
EncodeZero == <<CHARSET[1]>>

int_to_crypttext(num) ==
  IF num = 0 THEN EncodeZero
  ELSE LET chars == Reverse(DigitLoop(num, <<>>))
           grouped == ReverseGroups(GroupLoop(chars, 0, <<>>))
       IN  Join(grouped, "-")

(***************************************************************************)
(* crypttext_to_int                                                        *)
(***************************************************************************)
\* for char in digit_str: raise on a non-member, else num = num * BASE + index
RECURSIVE FoldDigits(_, _, _)
FoldDigits(digit_str, i, num) ==
  IF i > Len(digit_str) THEN Ok(num)
  ELSE IF ~InCharset(digit_str[i])
       THEN Raise("ValueError", <<"Invalid character", digit_str[i]>>)
       ELSE FoldDigits(digit_str, i + 1, (num * BASE) + CharsetIndex(digit_str[i]))

\* faulty variant: the padding is stripped from every group
crypttext_to_int_stripEach(crypttext) ==
  LET groups == Split(Upper(crypttext), "-")
      stripped == [k \in 1..Len(groups) |-> RStrip(Reverse(groups[k]), "A")]
  IN  FoldDigits(Concat(stripped), 1, 0)

\* faulty variant: the input is not upper-cased
crypttext_to_int_noUpper(crypttext) ==
  LET groups == Split(crypttext, "-")
      digit_str == RStrip(Concat(ReverseGroups(groups)), "A")
  IN  FoldDigits(digit_str, 1, 0)

crypttext_to_int(crypttext) ==
  LET groups == Split(Upper(crypttext), "-")
      digit_str == RStrip(Concat(ReverseGroups(groups)), "A")
  IN  FoldDigits(digit_str, 1, 0)

(***************************************************************************)
(* Byte <-> integer adapters.                                              *)
(***************************************************************************)
\* for byte in bytes: num = (num << 8) + byte
RECURSIVE BytesToInt(_, _, _)
BytesToInt(bs, i, num) ==
  IF i > Len(bs) THEN num ELSE BytesToInt(bs, i + 1, (num * 256) + bs[i])

\* while num > 0: bytes_list.append(num & 0xFF); num >>= 8
RECURSIVE ByteLoop(_, _)
ByteLoop(num, bytes_list) ==
  IF num > 0 THEN ByteLoop(num \div 256, Append(bytes_list, num % 256))
  ELSE bytes_list

\* str.encode('utf-8') of one code point
Utf8Char(cp) ==
  IF cp < 128 THEN <<cp>>
  ELSE IF cp < 2048 THEN <<192 + (cp \div 64), 128 + (cp % 64)>>
  ELSE IF cp < 65536
       THEN <<224 + (cp \div 4096), 128 + ((cp \div 64) % 64), 128 + (cp % 64)>>
       ELSE <<240 + (cp \div 262144), 128 + ((cp \div 4096) % 64),
              128 + ((cp \div 64) % 64), 128 + (cp % 64)>>

RECURSIVE Utf8Encode(_)
Utf8Encode(text) ==
  IF text = <<>> THEN <<>> ELSE Utf8Char(text[1]) \o Utf8Encode(Tail(text))

IsCont(bs, i) == i <= Len(bs) /\ bs[i] >= 128 /\ bs[i] < 192

\* bytes.decode('utf-8'), strict: Ok(code points) or the UnicodeDecodeError
RECURSIVE Utf8Decode(_, _, _)
Utf8Decode(bs, i, text) ==
  IF i > Len(bs) THEN Ok(text)
  ELSE LET b == bs[i] IN
    IF b < 128 THEN Utf8Decode(bs, i + 1, Append(text, b))
    ELSE IF b >= 194 /\ b < 224 /\ IsCont(bs, i + 1)
      THEN Utf8Decode(bs, i + 2, Append(text, (b - 192) * 64 + (bs[i+1] - 128)))
    ELSE IF b >= 224 /\ b < 240 /\ IsCont(bs, i + 1) /\ IsCont(bs, i + 2)
      THEN LET cp == (b - 224) * 4096 + (bs[i+1] - 128) * 64 + (bs[i+2] - 128)
           IN  IF cp >= 2048 /\ ~(cp >= 55296 /\ cp < 57344)
               THEN Utf8Decode(bs, i + 3, Append(text, cp))
               ELSE Raise("UnicodeDecodeError", <<"invalid", i - 1>>)
    ELSE IF b >= 240 /\ b < 245 /\ IsCont(bs, i + 1) /\ IsCont(bs, i + 2)
            /\ IsCont(bs, i + 3)
      THEN LET cp == (b - 240) * 262144 + (bs[i+1] - 128) * 4096
                     + (bs[i+2] - 128) * 64 + (bs[i+3] - 128)
           IN  IF cp >= 65536 /\ cp < 1114112
               THEN Utf8Decode(bs, i + 4, Append(text, cp))
               ELSE Raise("UnicodeDecodeError", <<"invalid", i - 1>>)
    ELSE Raise("UnicodeDecodeError", <<"invalid", i - 1>>)

text_to_int(text) == BytesToInt(Utf8Encode(text), 1, 0)

int_to_text(num) ==
  IF num = 0 THEN Ok(<<0>>)
  ELSE LET bytes_list == Reverse(ByteLoop(num, <<>>))
           decoded == Utf8Decode(bytes_list, 1, <<>>)
       IN  IF decoded.ok THEN decoded
           ELSE Raise("ValueError", <<"Decoded bytes are not valid UTF-8">>)

(***************************************************************************)
(* The file system: every path holds a regular file, a directory, or       *)
(* nothing.                                                                *)
(***************************************************************************)
File(bs) == [kind |-> "file", data |-> bs]
Missing == [kind |-> "missing", data |-> <<>>]
Directory == [kind |-> "dir", data |-> <<>>]

FileBytes == {0, 1, 32}
FileBuffers == SeqsUpTo(FileBytes, MaxBytes) \cup {<<255, 0, 1>>}

\* one input file per buffer, named after its initial content
InPath(bs) == <<"in", bs>>
OutPath == <<"out", <<>>>>
DirPath == <<"dir", <<>>>>
NoPath == <<"", <<>>>>
InPaths == {InPath(bs) : bs \in FileBuffers}
OutPaths == {OutPath, DirPath}
Paths == InPaths \cup OutPaths

file_to_int(file_path, fsys) ==
  IF fsys[file_path].kind = "file"
  THEN Ok(BytesToInt(fsys[file_path].data, 1, 0))
  ELSE Raise("IOError", <<"Failed to read file", file_path>>)

\* open(file_path, 'wb') creates or truncates a regular file, fails on a directory
WriteFile(bytes_list, file_path, fsys) ==
  IF fsys[file_path].kind = "dir"
  THEN [result |-> Raise("IOError", <<"Failed to write to file", file_path>>),
        fs |-> fsys]
  ELSE [result |-> Ok(<<>>),
        fs |-> [fsys EXCEPT ![file_path] = File(bytes_list)]]

int_to_file(num, file_path, fsys) ==
  LET bytes_list == IF num = 0 THEN <<0>> ELSE Reverse(ByteLoop(num, <<>>))
  IN  WriteFile(bytes_list, file_path, fsys)

(***************************************************************************)
(* int(input_num): the built-in's parse of a decimal string.               *)
(***************************************************************************)
DIGITS == <<"0","1","2","3","4","5","6","7","8","9">>

IsDigit(c) == \E i \in 1..Len(DIGITS) : DIGITS[i] = c
DigitVal(c) == (CHOOSE i \in 1..Len(DIGITS) : DIGITS[i] = c) - 1

RECURSIVE LStripSpace(_)
LStripSpace(s) == IF s # <<>> /\ s[1] = " " THEN LStripSpace(Tail(s)) ELSE s

StripSpace(s) == RStrip(LStripSpace(s), " ")

\* digits, with single underscores allowed between two digits
RECURSIVE ScanDigits(_, _, _, _)
ScanDigits(body, i, num, prevDigit) ==
  IF i > Len(body)
  THEN IF prevDigit THEN Ok(num) ELSE Raise("ValueError", <<"invalid literal">>)
  ELSE IF IsDigit(body[i])
       THEN ScanDigits(body, i + 1, (num * 10) + DigitVal(body[i]), TRUE)
       ELSE IF body[i] = "_" /\ prevDigit
            THEN ScanDigits(body, i + 1, num, FALSE)
            ELSE Raise("ValueError", <<"invalid literal">>)

PyInt(s) ==
  LET t == StripSpace(s)
      signed == t # <<>> /\ t[1] \in {"+", "-"}
      body == IF signed THEN Tail(t) ELSE t
      mag == ScanDigits(body, 1, 0, FALSE)
  IN  IF mag.ok /\ signed /\ t[1] = "-" THEN Ok(0 - mag.val) ELSE mag

(***************************************************************************)
(* The six public operations.  Each returns its result together with the   *)
(* codec functions it called.                                              *)
(***************************************************************************)
\* faulty variant: negative numbers are passed on to the codec
encode_number_noSignCheck(input_num) ==
  LET parsed == PyInt(input_num)
  IN  IF ~parsed.ok
      THEN [result |-> Raise("ValueError", <<"Invalid number", parsed.msg[1]>>),
            called |-> {}]
      ELSE [result |-> Ok(int_to_crypttext(parsed.val)),
            called |-> {"int_to_crypttext"}]

encode_number(input_num) ==
  LET parsed == PyInt(input_num)
  IN  IF ~parsed.ok
      THEN [result |-> Raise("ValueError", <<"Invalid number", parsed.msg[1]>>),
            called |-> {}]
      ELSE IF parsed.val < 0
      THEN [result |-> Raise("ValueError",
                             <<"Invalid number", "Number must be non-negative.">>),
            called |-> {}]
      ELSE [result |-> Ok(int_to_crypttext(parsed.val)),
            called |-> {"int_to_crypttext"}]

encode_text(input_text) ==
  [result |-> Ok(int_to_crypttext(text_to_int(input_text))),
   called |-> {"text_to_int", "int_to_crypttext"}]

encode_file(input_file_path, fsys) ==
  LET num == file_to_int(input_file_path, fsys)
  IN  IF ~num.ok THEN [result |-> num, called |-> {"file_to_int"}]
      ELSE [result |-> Ok(int_to_crypttext(num.val)),
            called |-> {"file_to_int", "int_to_crypttext"}]

decode_to_number(input_crypttext) ==
  [result |-> crypttext_to_int(input_crypttext), called |-> {"crypttext_to_int"}]

decode_to_text(input_crypttext) ==
  LET num == crypttext_to_int(input_crypttext)
  IN  IF ~num.ok THEN [result |-> num, called |-> {"crypttext_to_int"}]
      ELSE [result |-> int_to_text(num.val),
            called |-> {"crypttext_to_int", "int_to_text"}]

\* faulty variant: the output file is opened before the string is decoded
decode_to_file_openFirst(input_crypttext, output_file_path, fsys) ==
  LET opened == WriteFile(<<>>, output_file_path, fsys)
      num == crypttext_to_int(input_crypttext)
  IN  IF ~opened.result.ok
      THEN [result |-> opened.result, fs |-> fsys, called |-> {"int_to_file"}]
      ELSE IF ~num.ok
      THEN [result |-> num, fs |-> opened.fs,
            called |-> {"crypttext_to_int", "int_to_file"}]
      ELSE LET written == int_to_file(num.val, output_file_path, fsys)
           IN  [result |-> written.result, fs |-> written.fs,
                called |-> {"crypttext_to_int", "int_to_file"}]

decode_to_file(input_crypttext, output_file_path, fsys) ==
  LET num == crypttext_to_int(input_crypttext)
  IN  IF ~num.ok
      THEN [result |-> num, fs |-> fsys, called |-> {"crypttext_to_int"}]
      ELSE LET written == int_to_file(num.val, output_file_path, fsys)
           IN  [result |-> written.result, fs |-> written.fs,
                called |-> {"crypttext_to_int", "int_to_file"}]

(***************************************************************************)
(* Inputs.                                                                 *)
(***************************************************************************)
\* str(n) for n >= 0
RECURSIVE DecStr(_)
DecStr(n) ==
  IF n < 10 THEN <<DIGITS[n + 1]>> ELSE Append(DecStr(n \div 10), DIGITS[(n % 10) + 1])

BigNums == {1024, 32768, 1048576, 1048577, 1081344, 33554432, 1073741824, 2147483647}
Nums == (0..MaxNum) \cup BigNums

NumChars == {"0", "7", "-", "+", " ", "_", "x"}
NumberInputs == {DecStr(n) : n \in Nums} \cup SeqsUpTo(NumChars, MaxNumLen)

CryptChars == {"A", "B", "b", "ß", "#", "-"}
\* typed strings, kept to at most 6 digits after upper-casing (values below 2^30)
CryptInputs ==
  {s \in SeqsUpTo(CryptChars, MaxCryptLen) : Len(Upper(s)) <= 6}
    \cup {<<"A", "A", "A", "#">>}

\* the strings typed into a decode to a file
FileCryptChars == {"A", "B", "#"}
FileCryptInputs == SeqsUpTo(FileCryptChars, MaxFileCryptLen)

TextChars == {0, 32, 65}
TextInputs == SeqsUpTo(TextChars, MaxTextLen) \cup {<<233>>, <<65, 233>>, <<8364>>}

(***************************************************************************)
(* State: the last encode call, the last decode call, the file system.     *)
(* enc is kept while the decode calls take its output as their input, and  *)
(* reset as soon as a decode takes another string.                         *)
(***************************************************************************)
NoCall == [op |-> "none", input |-> <<>>, path |-> NoPath,
           result |-> Raise("none", <<>>), called |-> {}]

Call(o, i, p, r) ==
  [op |-> o, input |-> i, path |-> p, result |-> r.result, called |-> r.called]

Init ==
  /\ enc = NoCall
  /\ dec = NoCall
  /\ fs = [p \in Paths |->
             IF p \in InPaths THEN File(p[2])
             ELSE IF p = DirPath THEN Directory ELSE Missing]

\* the last encode's output, which a decode call can be given besides typed strings
Encoded == IF enc.result.ok THEN {enc.result.val} ELSE {}

KeepEnc(c) == IF enc.result.ok /\ enc.result.val = c THEN enc ELSE NoCall

EncodeNumber(s) ==
  /\ enc' = Call("encode_number", s, NoPath, encode_number(s))
  /\ dec' = NoCall
  /\ UNCHANGED fs

EncodeText(t) ==
  /\ enc' = Call("encode_text", t, NoPath, encode_text(t))
  /\ dec' = NoCall
  /\ UNCHANGED fs

\* main() refuses a path that is no regular file before calling encode_file
EncodeFile(p) ==
  /\ enc' = Call("encode_file", fs[p].data, p,
                 IF fs[p].kind = "file" THEN encode_file(p, fs)
                 ELSE [result |-> Raise("Error", <<"File does not exist", p>>),
                       called |-> {}])
  /\ dec' = NoCall
  /\ UNCHANGED fs

DecodeToNumber(c) ==
  /\ dec' = Call("decode_to_number", c, NoPath, decode_to_number(c))
  /\ enc' = KeepEnc(c)
  /\ UNCHANGED fs

DecodeToText(c) ==
  /\ dec' = Call("decode_to_text", c, NoPath, decode_to_text(c))
  /\ enc' = KeepEnc(c)
  /\ UNCHANGED fs

DecodeToFile(c, p) ==
  LET r == decode_to_file(c, p, fs)
  IN  /\ dec' = Call("decode_to_file", c, p, r)
      /\ enc' = KeepEnc(c)
      /\ fs' = r.fs

NumberNext ==
  \/ \E s \in NumberInputs : EncodeNumber(s)
  \/ \E c \in CryptInputs \cup Encoded : DecodeToNumber(c)

TextNext ==
  \/ \E t \in TextInputs : EncodeText(t)
  \/ \E c \in CryptInputs \cup Encoded : DecodeToText(c)

FileNext ==
  \/ \E p \in Paths : EncodeFile(p)
  \/ \E c \in FileCryptInputs \cup Encoded, p \in OutPaths : DecodeToFile(c, p)

Next == NumberNext \/ TextNext \/ FileNext

\* every operation, in any order; the properties are checked under the three
\* specifications below, one per payload kind, whose state spaces are small
Spec == Init /\ [][Next]_vars

\* the three payload kinds on their own
SpecNumber == Init /\ [][NumberNext]_vars
SpecText == Init /\ [][TextNext]_vars
SpecFile == Init /\ [][FileNext]_vars

(***************************************************************************)
(* Reference notions the properties are stated with.                       *)
(***************************************************************************)
CharsetSet == Range(CHARSET)
DigitSet == Range(DIGITS)

\* the last decode was given the output of the last encode
Chained(encOp, decOp) == enc.op = encOp /\ enc.result.ok /\ dec.op = decOp

RECURSIVE Pow32(_)
Pow32(k) == IF k = 0 THEN 1 ELSE 32 * Pow32(k - 1)

RECURSIVE NumDigits(_)
NumDigits(n) == IF n < 32 THEN 1 ELSE 1 + NumDigits(n \div 32)

\* the base-32 digits of n, most significant first
DigitSeq(n) ==
  [i \in 1..NumDigits(n) |-> CHARSET[((n \div Pow32(NumDigits(n) - i)) % 32) + 1]]

\* the digits right-padded with 'A' to a multiple of 4
Padded(n) ==
  DigitSeq(n) \o [i \in 1..((4 - (NumDigits(n) % 4)) % 4) |-> "A"]

NotHyphen(c) == c # "-"

\* n with every trailing zero base-32 digit removed
RECURSIVE StripPow32(_)
StripPow32(n) == IF n > 0 /\ n % 32 = 0 THEN StripPow32(n \div 32) ELSE n

\* C1: decoding the encoding of str(N) returns N, for every N >= 0
RoundTripNumber ==
  \A n \in Nums :
    (Chained("encode_number", "decode_to_number") /\ enc.input = DecStr(n))
      => dec.result = Ok(n)

\* C2: decoding the encoding of a text S returns exactly S, the empty text and
\* texts with leading NUL included
RoundTripText ==
  Chained("encode_text", "decode_to_text") => dec.result = Ok(enc.input)

\* C3: a file buffer F encoded and decoded to a file comes back as F, except that
\* the zero-length buffer comes back as the single byte 0
RoundTripFile ==
  (Chained("encode_file", "decode_to_file") /\ dec.result.ok)
    => fs[dec.path] = File(IF enc.input = <<>> THEN <<0>> ELSE enc.input)

\* C3, the concrete scenario: [0xFF, 0x00, 0x01] comes back as the same 3 bytes
RoundTripFileScenario ==
  (Chained("encode_file", "decode_to_file") /\ dec.result.ok
     /\ enc.input = <<255, 0, 1>>)
    => fs[dec.path] = File(<<255, 0, 1>>)

\* C4 as claimed: for N >= 1 the output without its hyphens is the digit sequence
\* of N, most significant first, followed only by the 'A's padding the last block
WireFormatDigitOrder ==
  \A n \in Nums :
    (enc.op = "encode_number" /\ enc.input = DecStr(n) /\ n >= 1)
      => SelectSeq(enc.result.val, NotHyphen) = Padded(n)

\* C4 amended: for N >= 1 the output is the 4-character slices of the padded digit
\* sequence, most significant slice first, each slice written in reverse, with one
\* hyphen between consecutive slices
WireFormatReversedBlocks ==
  \A n \in Nums :
    (enc.op = "encode_number" /\ enc.input = DecStr(n) /\ n >= 1)
      => LET out == enc.result.val
             m == Len(Padded(n)) \div 4
         IN  /\ Len(out) = (5 * m) - 1
             /\ \A k \in 1..m :
                  /\ \A j \in 1..4 :
                       out[(5 * (k - 1)) + j] = Padded(n)[(4 * (k - 1)) + (5 - j)]
                  /\ k < m => out[5 * k] = "-"

WireFormatWitness ==
  /\ enc.op = "encode_number"
  /\ enc.input = DecStr(1048577)
  /\ enc.result = Ok(<<"A", "A", "A", "B", "-", "A", "A", "A", "B">>)

BlockForm(out) ==
  /\ out # <<>>
  /\ \A i \in 1..Len(out) : out[i] = "-" \/ out[i] \in CharsetSet
  /\ out[1] # "-"
  /\ out[Len(out)] # "-"
  /\ \A i \in 1..(Len(out) - 1) : ~(out[i] = "-" /\ out[i + 1] = "-")
  /\ \A i \in 1..(Len(out) - 4) : \E j \in i..(i + 4) : out[j] = "-"

\* C5: every encoded number is a non-empty BLOCK(-BLOCK)* of 1..4 CHARSET
\* characters per block, single hyphens between blocks and nothing else
AlphabetClosure ==
  (enc.op = "encode_number" /\ enc.result.ok) => BlockForm(enc.result.val)

AlphabetClosureWitness ==
  /\ enc.op = "encode_number"
  /\ enc.input = DecStr(33554432)
  /\ enc.result = Ok(<<"A", "A", "A", "B", "-", "A", "A", "A", "A">>)

\* upper-cased, c is one character of CHARSET
IsMember(c) == Len(UpperChar(c)) = 1 /\ UpperChar(c)[1] \in CharsetSet

HasForeign(s) == \E i \in 1..Len(s) : s[i] # "-" /\ ~IsMember(s[i])

\* C6: a string holding a character that is neither a hyphen nor, upper-cased, in
\* CHARSET is rejected with the invalid-character error naming such a character
ForeignRejected ==
  (dec.op = "decode_to_number" /\ HasForeign(dec.input))
    => /\ ~dec.result.ok
       /\ dec.result.exc = "ValueError"
       /\ dec.result.msg[1] = "Invalid character"
       /\ dec.result.msg[2] \notin CharsetSet
       /\ dec.result.msg[2] \in Range(Upper(dec.input))

\* the part of C6 the code keeps: a string whose upper-casing holds a character
\* that is neither a hyphen nor in CHARSET is rejected, whatever padding surrounds it
ForeignAfterUpperRejected ==
  (dec.op = "decode_to_number"
     /\ \E i \in 1..Len(Upper(dec.input)) :
          Upper(dec.input)[i] \notin CharsetSet \cup {"-"})
    => /\ ~dec.result.ok
       /\ dec.result.msg[1] = "Invalid character"
       /\ dec.result.msg[2] \notin CharsetSet

EitherCase(c) ==
  \/ c = "-"
  \/ c \in CharsetSet
  \/ \E i \in 1..Len(LOWER) : LOWER[i] = c /\ UPPER[i] \in CharsetSet

\* C7: a string of alphabet letters in either case, digits 2-9 and hyphens decodes
\* to the same integer as its upper-cased form and is never rejected; no encoded
\* string holds a lower-case letter
CaseInsensitive ==
  /\ (dec.op = "decode_to_number" /\ \A i \in 1..Len(dec.input) : EitherCase(dec.input[i]))
       => /\ dec.result.ok
          /\ dec.result = crypttext_to_int(Upper(dec.input))
  /\ enc.result.ok => \A i \in 1..Len(enc.result.val) : enc.result.val[i] \notin Range(LOWER)

CaseInsensitiveWitness ==
  /\ dec.op = "decode_to_number"
  /\ dec.input = <<"b", "-", "B">>
  /\ dec.result = Ok(33)

\* digits with single underscores between two digits
IsDigitGroup(b) ==
  /\ b # <<>>
  /\ \A i \in 1..Len(b) :
       \/ b[i] \in DigitSet
       \/ /\ b[i] = "_"
          /\ 1 < i /\ i < Len(b)
          /\ b[i - 1] \in DigitSet /\ b[i + 1] \in DigitSet

\* blanks, an optional sign, a digit group, blanks
IsDecimalLiteral(s) ==
  \E i \in 1..Len(s) : \E j \in i..Len(s) :
    /\ \A k \in (1..(i - 1)) \cup ((j + 1)..Len(s)) : s[k] = " "
    /\ s[i] # " " /\ s[j] # " "
    /\ IsDigitGroup(IF s[i] \in {"+", "-"} THEN SubSeq(s, i + 1, j) ELSE SubSeq(s, i, j))

RECURSIVE Magnitude(_)
Magnitude(s) ==
  IF s = <<>> THEN 0
  ELSE IF s[Len(s)] \in DigitSet
       THEN (10 * Magnitude(SubSeq(s, 1, Len(s) - 1)))
            + (CHOOSE d \in 0..9 : DIGITS[d + 1] = s[Len(s)])
       ELSE Magnitude(SubSeq(s, 1, Len(s) - 1))

IsNegative(s) == (\E i \in 1..Len(s) : s[i] = "-") /\ Magnitude(s) > 0

\* C8: encode_number raises the invalid-number error, without calling
\* int_to_crypttext, on every input that is negative or no decimal integer
\* literal, and returns int_to_crypttext of the value on every other input
NumberValidation ==
  enc.op = "encode_number" =>
    IF IsDecimalLiteral(enc.input) /\ ~IsNegative(enc.input)
    THEN /\ enc.result = Ok(int_to_crypttext(Magnitude(enc.input)))
         /\ \A n \in Nums : enc.input = DecStr(n) => enc.result = Ok(int_to_crypttext(n))
    ELSE /\ ~enc.result.ok
         /\ enc.result.exc = "ValueError"
         /\ enc.result.msg[1] = "Invalid number"
         /\ "int_to_crypttext" \notin enc.called

NumberValidationWitness ==
  /\ enc.op = "encode_number"
  /\ enc.input = <<"-", "7">>
  /\ ~enc.result.ok
  /\ enc.called = {}

\* C9: a decode to a file that fails on an invalid character leaves the file
\* system as it was: the output file is neither created, truncated nor written
NoPartialFileDecode ==
  [][(dec'.op = "decode_to_file" /\ ~dec'.result.ok /\ dec'.result.exc = "ValueError")
       => (fs' = fs /\ "int_to_file" \notin dec'.called)]_vars

NoPartialFileDecodeWitness ==
  /\ dec.op = "decode_to_file"
  /\ ~dec.result.ok
  /\ dec.result.exc = "ValueError"
  /\ dec.path = OutPath
  /\ fs[OutPath].kind = "file"
  /\ fs[OutPath].data # <<>>

\* C10: for N >= 1 the round trip returns N without its trailing zero base-32
\* digits, so N and 32*N decode alike, and it returns N exactly when N = 0 or
\* 32 does not divide N
TrailingZeroCollapse ==
  \A n \in Nums :
    (Chained("encode_number", "decode_to_number") /\ enc.input = DecStr(n))
      => /\ n >= 1 => dec.result = Ok(StripPow32(n))
         /\ (dec.result = Ok(n)) <=> (n = 0 \/ n % 32 # 0)
         /\ (n >= 1 /\ n < 67108864)
              => crypttext_to_int(int_to_crypttext(32 * n)) = dec.result

TrailingZeroCollapseWitness ==
  /\ Chained("encode_number", "decode_to_number")
  /\ enc.input = DecStr(1081344)
  /\ dec.result = Ok(33)

====
